---- MODULE Spec2Model ----
(***************************************************************************)
(* A model of dataset.py of deep-face-hashing: the FaceScrubDataset        *)
(* catalog (names, img_paths), its length and its two accessors, and the   *)
(* split manager create_set / undo_create_set that moves image files       *)
(* between an identity folder and its "val" / "test" subfolders.           *)
(*                                                                         *)
(* The directory tree under DATA_DIR is the variable tree: one record per  *)
(* identity folder, with the image files directly under it (top), the      *)
(* files of its val and test subfolders, and the subfolders that exist     *)
(* (subs).  A path is the sequence of its "/"-separated components.        *)
(***************************************************************************)
EXTENDS Integers, Sequences, FiniteSets, TLC

\* ------------------------------------------------------------ bounds
\* Identity folders of the small corpus, and the image files of its largest
\* folder (the folders differ in size: see FilesOf).
NumPeople == 2
NumFiles == 2
\* Largest num_imgs handed to create_set by the free caller.
MaxK == 2
\* How far below -len and above len an index handed to __getitem__ reaches.
IndexSlack == 1
\* The corpus of the split session: identities, and images per identity
\* (the ">= 10 images per identity" case).
CarvePeople == 1
CarveFiles == 10

\* ------------------------------------------------------------ constants
\* create_set(mode, num_imgs=5)
DefaultNumImgs == 5

PersonUniverse == <<"ann", "bob", "cat", "dan">>
FileUniverse ==
    <<"f01", "f02", "f03", "f04", "f05", "f06", "f07", "f08", "f09", "f10", "f11", "f12">>
\* options = ["val", "test"]
Options == {"val", "test"}
\* The enumeration order of a directory listing: fixed for a directory state.
EntryOrder == FileUniverse \o <<"test", "val">>

People(n) == {PersonUniverse[i] : i \in 1..n}
Files(n) == {FileUniverse[i] : i \in 1..n}

Min(a, b) == IF a <= b THEN a ELSE b

\* The image files of the i-th identity of the small corpus.  As in the
\* FaceScrub corpus (between 39 and 191 images a person) the folders are
\* not of one size: each has one image fewer than the one before it, and
\* at least one.
FilesOf(i) == Files(IF NumFiles - i + 1 >= 1 THEN NumFiles - i + 1 ELSE 1)

\* tree: the directory tree under DATA_DIR.  ds: the dataset object.
\* out: what the last call returned or raised.  pc: where the caller is.
\* hist: a history variable, written by the split manager's calls and read
\* by no operation: what the last call found and moved.
VARIABLES tree, ds, out, pc, hist
vars == <<tree, ds, out, pc, hist>>

\* ------------------------------------------------------------ utils
\* DATA_DIR: a root of two components, so that component [2] of
\* DATA_DIR/<name>/... is the identity name.
DATA_DIR == <<".", "data">>

\* lsdir(path): the entries of a directory as a list.
ListOf(S, order) == SelectSeq(order, LAMBDA e : e \in S)

\* lsdir(DATA_DIR)
LsRoot(t) == ListOf(DOMAIN t, PersonUniverse)

\* The entries of DATA_DIR/<name>: its files and its subfolders.
Entries(d) == d.top \cup d.subs

\* lsdir(DATA_DIR/<name>)
LsIdentity(d) == ListOf(Entries(d), EntryOrder)

\* lsdir(DATA_DIR/<name>/<mode>); a missing subfolder lists as empty.
LsSub(d, mode) == IF mode \in d.subs THEN ListOf(d[mode], EntryOrder) ELSE <<>>

\* mkdir(path): creates the folder if it is absent.
Mkdir(d, mode) == [d EXCEPT !.subs = @ \cup {mode}]

\* A copy in place of the move: the file stays where it was.
RenameIntoCopying(d, mode, f) == [d EXCEPT ![mode] = @ \cup {f}]

\* The file leaves the subfolder and does not arrive.
RenameOutOfDropping(d, mode, f) == [d EXCEPT ![mode] = @ \ {f}]

\* os.rename(src, dst) of one file between the identity folder and a subfolder.
RenameInto(d, mode, f) == [d EXCEPT !.top = @ \ {f}, ![mode] = @ \cup {f}]
RenameOutOf(d, mode, f) == [d EXCEPT ![mode] = @ \ {f}, !.top = @ \cup {f}]

RECURSIVE RenameAllInto(_, _, _)
RenameAllInto(d, mode, fs) ==
    IF fs = {} THEN d
    ELSE LET f == CHOOSE g \in fs : TRUE
         IN RenameAllInto(RenameInto(d, mode, f), mode, fs \ {f})

RECURSIVE RenameListOutOf(_, _, _, _)
\* for i in range(len(test_imgs)): os.rename(test_path/test_imgs[i], path/test_imgs[i])
RenameListOutOf(d, mode, imgs, n) ==
    IF n = 0 THEN d
    ELSE RenameOutOf(RenameListOutOf(d, mode, imgs, n - 1), mode, imgs[n])

\* ------------------------------------------------------------ create_set
\* file_names = list(filter(lambda i: i not in options, lsdir(path)))
FileNames(d) == SelectSeq(LsIdentity(d), LAMBDA e : e \notin Options)

\* set(np.random.randint(0, num_names, num_names)): the distinct values of
\* num_names draws with replacement from [0, num_names); any non-empty set
\* of them.  With num_names = 0 nothing is drawn.
DrawnSets(num_names) ==
    IF num_names = 0 THEN {{}} ELSE (SUBSET (0..(num_names - 1))) \ {{}}

\* list(D)[:num_imgs]: the first num_imgs elements in the set's iteration
\* order, which is any order; all of D when it has fewer.
Truncated(D, num_imgs) ==
    {S \in SUBSET D : Cardinality(S) = Min(num_imgs, Cardinality(D))}

\* idx = list(set(np.random.randint(0, num_names, num_names)))[:num_imgs]
IdxChoices(num_names, num_imgs) ==
    UNION {Truncated(D, num_imgs) : D \in DrawnSets(num_names)}

\* The body of create_set's loop for one identity folder, idx drawn.
CarveOne(d, mode, idx) ==
    LET made == Mkdir(d, mode)
        file_names == FileNames(made)
    IN RenameAllInto(made, mode, {file_names[i + 1] : i \in idx})

\* Position of a name in a list (1-based), 0 when absent.
PosIn(list, e) ==
    IF \E i \in 1..Len(list) : list[i] = e
    THEN CHOOSE i \in 1..Len(list) : list[i] = e
    ELSE 0

\* The tree after create_set's loop over name_paths.  stop = 0: the loop ran
\* to its end.  stop = j > 0: the draw for the j-th folder raised (an empty
\* range, low >= high), after its mkdir; the folders after it are untouched.
CreateSetTree(t, mode, pick, stop) ==
    LET name_paths == LsRoot(t)
    IN [n \in DOMAIN t |->
          IF stop = 0 \/ PosIn(name_paths, n) < stop THEN CarveOne(t[n], mode, pick[n])
          ELSE IF PosIn(name_paths, n) = stop THEN Mkdir(t[n], mode)
          ELSE t[n]]

\* The draws create_set can make: one idx per folder the loop reaches (the
\* first j folders of name_paths), none for the others.
RECURSIVE Picks(_, _, _, _)
Picks(t, num_imgs, stop, j) ==
    IF j = 0 THEN {<<>>}
    ELSE LET n == LsRoot(t)[j]
             choices == IF stop = 0 \/ j < stop
                        THEN IdxChoices(Len(FileNames(t[n])), num_imgs)
                        ELSE {{}}
         IN {(n :> idx) @@ pick : idx \in choices, pick \in Picks(t, num_imgs, stop, j - 1)}

\* Where the loop can end: at its end, or at a folder with no file to draw
\* from (np.random.randint(0, 0, 0) raises in the NumPy releases that check
\* the range before the size, and returns an empty array in the others).
Stops(t) ==
    {0} \cup {j \in 1..Len(LsRoot(t)) : FileNames(t[LsRoot(t)[j]]) = <<>>}

\* ------------------------------------------------------------ undo_create_set
\* The loop one short: range(len(test_imgs) - 1).
UndoOneButLast(d, mode) ==
    IF mode \notin d.subs THEN d
    ELSE LET test_imgs == LsSub(d, mode)
         IN RenameListOutOf(d, mode, test_imgs,
                            IF test_imgs = <<>> THEN 0 ELSE Len(test_imgs) - 1)

\* The body of undo_create_set's loop for one identity folder.
UndoOne(d, mode) ==
    IF mode \notin d.subs THEN d
    ELSE LET test_imgs == LsSub(d, mode)
         IN RenameListOutOf(d, mode, test_imgs, Len(test_imgs))

UndoTree(t, mode) == [n \in DOMAIN t |-> UndoOne(t[n], mode)]

\* ------------------------------------------------------------ FaceScrubDataset
Modes == {"train", "val", "test"}
Types == {"label", "comparison"}

\* kwargs.get(key, default)
Get(kwargs, key, default) == IF key \in DOMAIN kwargs THEN kwargs[key] ELSE default

\* _get_img_paths(name): the paths of one identity's images in the split.
GetImgPaths(t, data_dir, mode, name) ==
    LET folder == IF mode = "train" THEN data_dir \o <<name>>
                  ELSE data_dir \o <<name, mode>>
        listing == IF mode = "train" THEN LsIdentity(t[name]) ELSE LsSub(t[name], mode)
        files == SelectSeq(listing, LAMBDA f : f \notin Options)
    IN [i \in 1..Len(files) |-> folder \o <<files[i]>>]

RECURSIVE SumLists(_, _)
\* sum(paths, [])
SumLists(lists, n) ==
    IF n = 0 THEN <<>> ELSE SumLists(lists, n - 1) \o lists[n]

\* _get_all_img_paths()
GetAllImgPaths(t, data_dir, mode, names) ==
    SumLists([i \in 1..Len(names) |-> GetImgPaths(t, data_dir, mode, names[i])], Len(names))

\* No dataset object constructed yet.
NoDataset ==
    [built |-> FALSE, data_dir |-> <<>>, mode |-> "", type |-> "",
     names |-> <<>>, img_paths |-> <<>>]

\* The object __init__ builds (mode and type valid).
NewDataset(t, mode, type) ==
    [built |-> TRUE, data_dir |-> DATA_DIR, mode |-> mode, type |-> type,
     names |-> LsRoot(t),
     img_paths |-> GetAllImgPaths(t, DATA_DIR, mode, LsRoot(t))]

\* __len__()
DsLen(d) ==
    IF d.type = "comparison" THEN Len(d.img_paths) * Len(d.img_paths)
    ELSE Len(d.img_paths)

\* ------------------------------------------------------------ results
\* What a call left: a returned tuple, a returned None, or a raised exception.
Result(op, mode, index, tag, exc, img, cimg, label) ==
    [op |-> op, mode |-> mode, index |-> index, tag |-> tag, exc |-> exc,
     img |-> img, cimg |-> cimg, label |-> label]
Returned(op, mode) == Result(op, mode, 0, "return", "", <<>>, <<>>, -1)
Raised(op, mode, index, exc) == Result(op, mode, index, "raise", exc, <<>>, <<>>, -1)
ReturnedNone(index) == Result("getitem", "", index, "None", "", <<>>, <<>>, -1)
ReturnedTuple(index, img, cimg, label) ==
    Result("getitem", "", index, "tuple", "", img, cimg, label)

\* ------------------------------------------------------------ accessors
\* Whether a Python list index is in range: -len <= i < len.
InRange(list, i) == -Len(list) <= i /\ i < Len(list)

\* A negative index taken by its magnitude.
ListGetMagnitude(list, i) == IF i >= 0 THEN list[i + 1] ELSE list[-i]

\* list[i] for an index in range; a negative index counts from the end.
ListGet(list, i) == IF i >= 0 THEN list[i + 1] ELSE list[Len(list) + i + 1]

\* path.split("/")[3]
NameOfNextComponent(path) == path[4]

\* path.split("/")[2]
NameOf(path) == path[3]

\* Whether the file a path names is in the tree.
Exists(t, path) ==
    LET rel == SubSeq(path, Len(DATA_DIR) + 1, Len(path))
    IN /\ SubSeq(path, 1, Len(DATA_DIR)) = DATA_DIR
       /\ Len(rel) \in {2, 3}
       /\ rel[1] \in DOMAIN t
       /\ IF Len(rel) = 2 THEN rel[2] \in t[rel[1]].top
          ELSE rel[2] \in t[rel[1]].subs /\ rel[3] \in t[rel[1]][rel[2]]

\* _get_img_from_path(path): the image, named by its path; Image.open raises
\* on a missing file, and it or the transform on one that does not decode.
GetImgFromPath(t, path, decodes) ==
    IF ~Exists(t, path) THEN [tag |-> "raise", exc |-> "FileNotFoundError", img |-> <<>>]
    ELSE IF ~decodes THEN [tag |-> "raise", exc |-> "DecodeError", img |-> <<>>]
    ELSE [tag |-> "ok", exc |-> "", img |-> path]

\* x and y taken the other way round.
PairFromIndexSwapped(index, num_imgs) == <<index \div num_imgs, index % num_imgs>>

\* _get_pair_from_index: x, y = index % num_imgs, index // num_imgs
PairFromIndex(index, num_imgs) == <<index % num_imgs, index \div num_imgs>>

\* label = baseline.split("/")[2] == compare.split("/")[2]; int(label)
SameIdentity(baseline, compare) == IF NameOf(baseline) = NameOf(compare) THEN 1 ELSE 0

\* _get_data_comparison(index)
GetDataComparison(d, t, index, bdecodes, cdecodes) ==
    LET num_imgs == Len(d.img_paths)
        xy == PairFromIndex(index, num_imgs)
        baseline == ListGet(d.img_paths, xy[1])
        compare == ListGet(d.img_paths, xy[2])
        bimg == GetImgFromPath(t, baseline, bdecodes)
        cimg == GetImgFromPath(t, compare, cdecodes)
    IN IF num_imgs = 0 THEN Raised("getitem", "", index, "ZeroDivisionError")
       ELSE IF ~InRange(d.img_paths, xy[1]) \/ ~InRange(d.img_paths, xy[2])
       THEN Raised("getitem", "", index, "IndexError")
       ELSE IF bimg.tag = "raise" THEN Raised("getitem", "", index, bimg.exc)
       ELSE IF cimg.tag = "raise" THEN Raised("getitem", "", index, cimg.exc)
       ELSE ReturnedTuple(index, bimg.img, cimg.img, SameIdentity(baseline, compare))

\* No handler: the exception propagates.
TryExceptMissing(r, index) == r

\* try: ... except Exception as error: output = None
TryExcept(r, index) == IF r.tag = "raise" THEN ReturnedNone(index) ELSE r

\* self.names.index(name): the 0-based position, or a raised ValueError.
\* output = self._get_img_from_path(img_path), self.names.index(name)
LabelTuple(d, t, index, img_path, name, decodes) ==
    LET img == GetImgFromPath(t, img_path, decodes)
    IN IF img.tag = "raise" THEN Raised("getitem", "", index, img.exc)
       ELSE IF PosIn(d.names, name) = 0 THEN Raised("getitem", "", index, "ValueError")
       ELSE ReturnedTuple(index, img.img, <<>>, PosIn(d.names, name) - 1)

\* _get_data_label(index)
GetDataLabel(d, t, index, decodes) ==
    IF ~InRange(d.img_paths, index) THEN Raised("getitem", "", index, "IndexError")
    ELSE LET img_path == ListGet(d.img_paths, index)
             name == NameOf(img_path)
         IN TryExcept(LabelTuple(d, t, index, img_path, name, decodes), index)

\* __getitem__(index)
GetItemResult(d, t, index, bdecodes, cdecodes) ==
    IF d.type = "comparison" THEN GetDataComparison(d, t, index, bdecodes, cdecodes)
    ELSE IF d.type = "label" THEN GetDataLabel(d, t, index, bdecodes)
    ELSE Raised("getitem", "", index, "Exception")

\* ------------------------------------------------------------ history
\* The number of files that are in a folder's split subfolder in t2 and were
\* not in t1, over all folders.
Arrived(t1, t2, mode) ==
    Cardinality(UNION {{<<n, f>> : f \in t2[n][mode] \ t1[n][mode]} : n \in DOMAIN t1})

NoHist == [clean |-> FALSE, moved |-> 0, undoes |-> FALSE]

\* After create_set(mode): whether every folder's split subfolder was empty
\* or absent when it was called, and how many files it moved.
CarveHist(t1, t2, mode) ==
    IF mode \notin Options THEN NoHist
    ELSE [clean |-> \A n \in DOMAIN t1 : t1[n][mode] = {},
          moved |-> Arrived(t1, t2, mode),
          undoes |-> FALSE]

\* After undo_create_set(mode): how many files it moved, and whether it
\* follows a create_set(mode) that found the split subfolders empty.
UndoHist(t1, t2, mode) ==
    IF mode \notin Options THEN NoHist
    ELSE [clean |-> FALSE,
          moved |-> Arrived(t2, t1, mode),
          undoes |-> out.op = "create_set" /\ out.mode = mode /\ hist.clean /\ hist.moved > 0]

\* ------------------------------------------------------------ operations
\* The keyword arguments a caller passes to FaceScrubDataset(**kwargs).
KwargsSet ==
    {kw \in UNION {[K -> Modes \cup Types \cup {"bogus"}] : K \in SUBSET {"mode", "type"}} :
        /\ "mode" \in DOMAIN kw => kw["mode"] \in Modes \cup {"bogus"}
        /\ "type" \in DOMAIN kw => kw["type"] \in Types \cup {"bogus"}}

\* dataset = FaceScrubDataset(**kwargs)
Construct(kwargs) ==
    LET type == Get(kwargs, "type", "label")
        mode == Get(kwargs, "mode", "train")
    IN /\ IF mode \notin Modes \/ type \notin Types
          THEN /\ ds' = ds
               /\ out' = Raised("init", mode, 0, "Exception")
          ELSE /\ ds' = NewDataset(tree, mode, type)
               /\ out' = Returned("init", mode)
       /\ hist' = NoHist
       /\ UNCHANGED tree

\* The indexes handed to dataset[index]: the valid ones and IndexSlack
\* beyond what Python's negative indexing accepts, on either side.
Indexes(d) == (-DsLen(d) - IndexSlack)..(DsLen(d) + IndexSlack - 1)

\* dataset[index], were the catalog listed again on every access.
GetItemRelisting(index, bdecodes, cdecodes) ==
    /\ ds.built
    /\ index \in Indexes(ds)
    /\ out' = GetItemResult(ds, tree, index, bdecodes, cdecodes)
    /\ hist' = NoHist
    /\ ds' = NewDataset(tree, ds.mode, ds.type)
    /\ UNCHANGED tree

\* dataset[index]
GetItem(index, bdecodes, cdecodes) ==
    /\ ds.built
    /\ index \in Indexes(ds)
    /\ out' = GetItemResult(ds, tree, index, bdecodes, cdecodes)
    /\ hist' = NoHist
    /\ UNCHANGED <<tree, ds>>

\* create_set(mode, num_imgs)
CreateSet(mode, num_imgs) ==
    /\ IF mode \notin Options
       THEN /\ tree' = tree
            /\ out' = Returned("create_set", mode)
       ELSE \E stop \in Stops(tree) :
               \E pick \in Picks(tree, num_imgs, stop, Len(LsRoot(tree))) :
                  /\ tree' = CreateSetTree(tree, mode, pick, stop)
                  /\ out' = IF stop = 0 THEN Returned("create_set", mode)
                            ELSE Raised("create_set", mode, 0, "ValueError")
    /\ hist' = CarveHist(tree, tree', mode)
    /\ UNCHANGED ds

\* undo_create_set(mode)
UndoCreateSet(mode) ==
    /\ tree' = IF mode \notin Options THEN tree ELSE UndoTree(tree, mode)
    /\ out' = Returned("undo_create_set", mode)
    /\ hist' = UndoHist(tree, tree', mode)
    /\ UNCHANGED ds

\* ------------------------------------------------------------ the free caller
\* A directory tree: every file of every identity in exactly one of the
\* identity folder and its two subfolders; a subfolder that holds files exists.
Folders(files) ==
    {d \in [top : SUBSET files, val : SUBSET files, test : SUBSET files,
            subs : SUBSET Options] :
        /\ d.top \cup d.val \cup d.test = files
        /\ d.top \cap d.val = {} /\ d.top \cap d.test = {} /\ d.val \cap d.test = {}
        /\ \A m \in Options : d[m] # {} => m \in d.subs}

Init ==
    /\ tree \in {t \in [People(NumPeople) -> UNION {Folders(FilesOf(i)) : i \in 1..NumPeople}] :
                   \A i \in 1..NumPeople : t[PersonUniverse[i]] \in Folders(FilesOf(i))}
    /\ ds = NoDataset
    /\ out = Returned("start", "")
    /\ hist = NoHist
    /\ pc = "free"

DoConstruct == \E kwargs \in KwargsSet : Construct(kwargs) /\ UNCHANGED pc
DoGetItem ==
    \E index \in Indexes(ds), bdecodes \in BOOLEAN, cdecodes \in BOOLEAN :
        GetItem(index, bdecodes, cdecodes) /\ UNCHANGED pc
DoCreateSet ==
    \E mode \in Modes, num_imgs \in 0..MaxK : CreateSet(mode, num_imgs) /\ UNCHANGED pc
DoUndoCreateSet == \E mode \in Modes : UndoCreateSet(mode) /\ UNCHANGED pc

Next == DoConstruct \/ DoGetItem \/ DoCreateSet \/ DoUndoCreateSet

Spec == Init /\ [][Next]_vars

\* ------------------------------------------------------------ the split session
\* The calls of assert_data_split_correct after its two undo calls: on a
\* corpus with every image in its identity folder, create_set("val"),
\* create_set("test"), then datasets constructed with only mode given.
FreshFolder(files) == [top |-> files, val |-> {}, test |-> {}, subs |-> {}]

InitSession ==
    /\ tree = [n \in People(CarvePeople) |-> FreshFolder(Files(CarveFiles))]
    /\ ds = NoDataset
    /\ out = Returned("start", "")
    /\ hist = NoHist
    /\ pc = "undone"

CarveVal ==
    /\ pc = "undone"
    /\ CreateSet("val", DefaultNumImgs)
    /\ pc' = "val"
CarveTest ==
    /\ pc = "val"
    /\ CreateSet("test", DefaultNumImgs)
    /\ pc' = "split"
Measure ==
    /\ pc = "split"
    /\ \E mode \in Modes : Construct("mode" :> mode)
    /\ pc' = pc

NextSession == CarveVal \/ CarveTest \/ Measure

SpecSession == InitSession /\ [][NextSession]_vars

\* ------------------------------------------------------------ properties
\* The catalog length of the dataset object.
NumImgs == Len(ds.img_paths)

\* The files of a folder that belong to a split.
Part(d, mode) == IF mode = "train" THEN d.top ELSE d[mode]

\* The number of images of a split in a tree.
CountImages(t, mode) ==
    Cardinality(UNION {{<<n, f>> : f \in Part(t[n], mode)} : n \in DOMAIN t})

\* The identity folder a path lies in: the component after the data root.
IdentityOf(path) == path[Len(DATA_DIR) + 1]

\* The last call was dataset[index] on a dataset of the given type.
Accessed(type) == out.op = "getitem" /\ ds.built /\ ds.type = type

\* C1: for a catalog of N >= 1 images and every flat index i in [0, N^2),
\* _get_pair_from_index gives (x, y) with 0 <= x < N, 0 <= y < N,
\* x = i mod N, y = i div N and y*N + x = i; i -> (x, y) is one-to-one from
\* [0, N^2) onto [0, N) x [0, N); and the pair a comparison access returns
\* is (img_paths[x], img_paths[y]).
C1_PairBijection ==
    (ds.built /\ NumImgs >= 1) =>
        LET N == NumImgs
            I == 0..(N * N - 1)
        IN /\ \A i \in I :
                LET xy == PairFromIndex(i, N)
                IN /\ xy[1] \in 0..(N - 1) /\ xy[2] \in 0..(N - 1)
                   /\ xy[2] * N + xy[1] = i
           /\ \A i, j \in I : PairFromIndex(i, N) = PairFromIndex(j, N) => i = j
           /\ {PairFromIndex(i, N) : i \in I} = (0..(N - 1)) \X (0..(N - 1))
           /\ (Accessed("comparison") /\ out.tag = "tuple" /\ out.index \in I) =>
                 /\ out.img = ds.img_paths[(out.index % N) + 1]
                 /\ out.cimg = ds.img_paths[(out.index \div N) + 1]

\* A comparison access at a valid index whose two positions differ.
C1_Witness ==
    /\ Accessed("comparison") /\ out.tag = "tuple"
    /\ NumImgs >= 2
    /\ out.index \in 1..(NumImgs * NumImgs - 1)
    /\ out.index % NumImgs # out.index \div NumImgs

\* C2 as stated: from any directory state, create_set(split, k) followed
\* at once by undo_create_set(split) leaves every identity's train partition
\* the set it was before the create_set call.
C2_AnyState ==
    [][(out'.op = "create_set" /\ out'.mode \in Options) =>
          \A n \in DOMAIN tree : UndoTree(tree', out'.mode)[n].top = tree[n].top]_vars

\* C2, amended: the same, from a directory state in which the split
\* subfolder of every identity is absent or empty.
C2_FromEmptySplit ==
    [][(/\ out'.op = "create_set" /\ out'.mode \in Options
        /\ \A n \in DOMAIN tree : tree[n][out'.mode] = {}) =>
          \A n \in DOMAIN tree : UndoTree(tree', out'.mode)[n].top = tree[n].top]_vars

\* An undo_create_set that moved files back, right after a create_set of the
\* same split that found the split subfolders empty and moved files.
C2_Witness == out.op = "undo_create_set" /\ hist.undoes /\ hist.moved > 0

\* C3: with at least 10 train images per identity and empty val and test
\* partitions, after create_set("val", 5) and create_set("test", 5) the
\* label-mode train length is 10 * identityCount smaller than before, and
\* the label-mode val and test lengths are 5 * identityCount each.
C3_FivePerIdentityPerCall ==
    (pc = "split" /\ ds.built /\ ds.type = "label") =>
        /\ ds.mode = "train" =>
              DsLen(ds) = CarvePeople * CarveFiles - 2 * DefaultNumImgs * Len(ds.names)
        /\ ds.mode \in Options => DsLen(ds) = DefaultNumImgs * Len(ds.names)

\* C4: every image file of every identity is in exactly one of the three
\* partitions, and the files of each identity, over the three partitions,
\* are those it started with.
C4_Conservation ==
    \A i \in 1..NumPeople :
        LET d == tree[PersonUniverse[i]]
        IN /\ d.top \cap d.val = {}
           /\ d.top \cap d.test = {}
           /\ d.val \cap d.test = {}
           /\ d.top \cup d.val \cup d.test = FilesOf(i)

\* After an undo_create_set("val") that moved files back, an identity with
\* files in its folder and in its test subfolder.
C4_Witness ==
    /\ out.op = "undo_create_set" /\ out.mode = "val" /\ hist.moved > 0
    /\ \E n \in DOMAIN tree : tree[n].top # {} /\ tree[n].test # {}

\* C5: in label mode, for every index of the catalog, __getitem__ returns
\* (image, identityIndex) or None and does not raise; when the file is no
\* longer at its path the result is None.
C5_LabelNeverRaises ==
    (Accessed("label") /\ out.index \in 0..(NumImgs - 1)) =>
        LET path == ds.img_paths[out.index + 1]
        IN /\ out.tag \in {"tuple", "None"}
           /\ ~Exists(tree, path) => out.tag = "None"
           /\ out.tag = "tuple" =>
                 /\ out.img = path
                 /\ ds.names[out.label + 1] = IdentityOf(path)

\* A label access at a catalog index whose file was moved away after the
\* catalog was built: None.
C5_Witness ==
    /\ Accessed("label") /\ out.index \in 0..(NumImgs - 1)
    /\ ~Exists(tree, ds.img_paths[out.index + 1])
    /\ out.tag = "None"

\* C6: in comparison mode, for every split and every index i in [0, N^2),
\* the label returned is 1 exactly when img_paths[i mod N] and
\* img_paths[i div N] lie in the same identity folder, and 0 otherwise;
\* index 0 yields 1.
C6_LabelIsSameIdentity ==
    (Accessed("comparison") /\ out.tag = "tuple"
        /\ out.index \in 0..(NumImgs * NumImgs - 1)) =>
        LET baseline == ds.img_paths[(out.index % NumImgs) + 1]
            compare == ds.img_paths[(out.index \div NumImgs) + 1]
        IN /\ out.label \in {0, 1}
           /\ out.label = 1 <=> IdentityOf(baseline) = IdentityOf(compare)
           /\ out.index = 0 => out.label = 1

\* A comparison access of the val split pairing two identities: label 0.
C6_Witness ==
    /\ Accessed("comparison") /\ out.tag = "tuple" /\ ds.mode = "val"
    /\ out.index \in 0..(NumImgs * NumImgs - 1)
    /\ out.label = 0

\* C7: the length of a dataset constructed with only mode given is the
\* square of the number of images of that split.
C7_DefaultLengthIsSquare ==
    (pc = "split" /\ ds.built) =>
        DsLen(ds) = CountImages(tree, ds.mode) * CountImages(tree, ds.mode)

\* C8: once a dataset is constructed, no __getitem__, create_set or
\* undo_create_set changes its identity list, its image-path list or its
\* length.
C8_CatalogIsSnapshot ==
    [][out'.op # "init" =>
          /\ ds'.names = ds.names
          /\ ds'.img_paths = ds.img_paths
          /\ DsLen(ds') = DsLen(ds)]_vars

\* An access to a dataset whose catalog no longer matches the tree.
C8_Witness ==
    /\ out.op = "getitem" /\ ds.built
    /\ ds.img_paths # GetAllImgPaths(tree, ds.data_dir, ds.mode, LsRoot(tree))

\* C9: undo_create_set(split) twice leaves what undo_create_set(split) once
\* leaves; every file of an identity's split subfolder ends in its
\* top-level folder; an identity without the subfolder is unchanged.
C9_UndoIdempotent ==
    [][(out'.op = "undo_create_set" /\ out'.mode \in Options) =>
          /\ UndoTree(tree', out'.mode) = tree'
          /\ \A n \in DOMAIN tree :
                IF out'.mode \in tree[n].subs
                THEN /\ tree[n][out'.mode] \subseteq tree'[n].top
                     /\ tree'[n][out'.mode] = {}
                     /\ tree'[n].subs = tree[n].subs
                ELSE tree'[n] = tree[n]]_vars

\* An undo_create_set that moved files back and skipped an identity that
\* has no such subfolder.
C9_Witness ==
    /\ out.op = "undo_create_set" /\ hist.moved > 0
    /\ \E n \in DOMAIN tree : out.mode \notin tree[n].subs

\* Whether an index is outside the valid domain [0, __len__()).
OutsideDomain(index) == index < 0 \/ index >= DsLen(ds)

\* C10 as stated: an index outside the valid domain, negative ones
\* included, is never resolved to an image or an image pair.
C10_OutsideNeverResolved ==
    (out.op = "getitem" /\ ds.built /\ OutsideDomain(out.index)) => out.tag # "tuple"

\* C10, amended: an index at or above __len__(), or below -__len__(), ends
\* in a raised error; a negative index from -__len__() on is resolved from
\* the end: in label mode to img_paths[len + index], in comparison mode to
\* the pair (img_paths[index mod N], img_paths[N + index div N]).
C10_OnlyNegativesWrap ==
    (out.op = "getitem" /\ ds.built) =>
        /\ (out.index >= DsLen(ds) \/ out.index < -DsLen(ds)) => out.tag = "raise"
        /\ (out.index \in (-DsLen(ds))..(-1) /\ out.tag = "tuple") =>
              IF ds.type = "label"
              THEN out.img = ds.img_paths[NumImgs + out.index + 1]
              ELSE /\ out.img = ds.img_paths[(out.index % NumImgs) + 1]
                   /\ out.cimg = ds.img_paths[NumImgs + (out.index \div NumImgs) + 1]

\* A negative index resolved to a sample.
C10_Witness ==
    /\ out.op = "getitem" /\ ds.built /\ NumImgs >= 2
    /\ out.index < 0 /\ out.tag = "tuple"

====
